---- MODULE Spec2Model ----
(***************************************************************************)
(* Model of urxvt.py: the font catalog built from the output of fc-list,   *)
(* the Font faces that read it, the assembly of the urxvt arguments and    *)
(* the client/daemon launch.                                               *)
(*                                                                         *)
(* Python strings are TLA+ strings, handled with Len, SubSeq and \o.       *)
(* An optional value (None or a string) is a sequence of length 0 or 1:    *)
(* None is <<>>, the string s is <<s>>.  A dict is a function whose        *)
(* DOMAIN is the set of its keys.                                          *)
(***************************************************************************)
EXTENDS Integers, Sequences, FiniteSets, TLC

(***************************************************************************)
(* Python's str and list primitives used by the program.                   *)
(***************************************************************************)

\* Printable ASCII in code point order: from the space (32) to the underscore
\* (95), and from "a" (97) to the tilde (126).
AsciiTo95 ==
  " !\"#$%&'()*+,-./0123456789:;<=>?@ABCDEFGHIJKLMNOPQRSTUVWXYZ[\\]^_"

AsciiFrom97 == "abcdefghijklmnopqrstuvwxyz{|}~"

Upper == "ABCDEFGHIJKLMNOPQRSTUVWXYZ"

LowerCase == "abcdefghijklmnopqrstuvwxyz"

Whitespace == {" ", "\t", "\n", "\r", "\f"}

CharAt(s, k) == SubSeq(s, k, k)

\* The least index >= from at which sub occurs in s, 0 when there is none.
RECURSIVE Find(_, _, _)
Find(s, sub, from) ==
  IF from + Len(sub) - 1 > Len(s) THEN 0
  ELSE IF SubSeq(s, from, from + Len(sub) - 1) = sub THEN from
  ELSE Find(s, sub, from + 1)

\* sub in s
Contains(sub, s) == Find(s, sub, 1) # 0

\* s.split(sep), sep not empty
RECURSIVE Split(_, _)
Split(s, sep) ==
  LET at == Find(s, sep, 1)
  IN  IF at = 0 THEN <<s>>
      ELSE <<SubSeq(s, 1, at - 1)>> \o Split(SubSeq(s, at + Len(sep), Len(s)), sep)

RECURSIVE LStrip(_)
LStrip(s) ==
  IF Len(s) > 0 /\ CharAt(s, 1) \in Whitespace THEN LStrip(SubSeq(s, 2, Len(s))) ELSE s

RECURSIVE RStrip(_)
RStrip(s) ==
  IF Len(s) > 0 /\ CharAt(s, Len(s)) \in Whitespace
  THEN RStrip(SubSeq(s, 1, Len(s) - 1)) ELSE s

\* s.strip()
Strip(s) == RStrip(LStrip(s))

LowerChar(c) ==
  LET at == Find(Upper, c, 1) IN IF at = 0 THEN c ELSE CharAt(LowerCase, at)

\* s.lower()
RECURSIVE Lower(_)
Lower(s) ==
  IF s = "" THEN "" ELSE LowerChar(CharAt(s, 1)) \o Lower(SubSeq(s, 2, Len(s)))

\* sep.join(strs)
RECURSIVE Join(_, _)
Join(strs, sep) ==
  IF strs = <<>> THEN ""
  ELSE IF Len(strs) = 1 THEN strs[1]
  ELSE strs[1] \o sep \o Join(Tail(strs), sep)

\* ord(c)
Ord(c) ==
  LET low == Find(AsciiTo95, c, 1)
  IN  IF low # 0 THEN low + 31 ELSE Find(AsciiFrom97, c, 1) + 96

\* a < b on str: by code points, a proper prefix is the smaller one.
RECURSIVE StrLess(_, _)
StrLess(a, b) ==
  IF b = "" THEN FALSE
  ELSE IF a = "" THEN TRUE
  ELSE IF CharAt(a, 1) = CharAt(b, 1)
       THEN StrLess(SubSeq(a, 2, Len(a)), SubSeq(b, 2, Len(b)))
  ELSE Ord(CharAt(a, 1)) < Ord(CharAt(b, 1))

RECURSIVE InsertSorted(_, _)
InsertSorted(x, strs) ==
  IF strs = <<>> THEN <<x>>
  ELSE IF StrLess(x, strs[1]) THEN <<x>> \o strs
  ELSE <<strs[1]>> \o InsertSorted(x, Tail(strs))

\* sorted(strs)
RECURSIVE Sorted(_)
Sorted(strs) ==
  IF strs = <<>> THEN <<>> ELSE InsertSorted(strs[1], Sorted(Tail(strs)))

\* '%d' % n
RECURSIVE Decimal(_)
Decimal(n) ==
  IF n < 0 THEN "-" \o Decimal(0 - n)
  ELSE IF n < 10 THEN CharAt("0123456789", n + 1)
  ELSE Decimal(n \div 10) \o CharAt("0123456789", (n % 10) + 1)

\* [f(x) for x in strs]
RECURSIVE StripAll(_)
StripAll(strs) ==
  IF strs = <<>> THEN <<>> ELSE <<Strip(strs[1])>> \o StripAll(Tail(strs))

None == <<>>

Some(s) == <<s>>

\* not v, for an optional string: None and '' are false
Falsy(v) == v = None \/ v[1] = ""

\* d.get(key)
Get(d, key) == IF key \in DOMAIN d THEN Some(d[key]) ELSE None

\* d[key] = value
Put(d, key, value) == [k \in DOMAIN d \cup {key} |-> IF k = key THEN value ELSE d[k]]

\* {}
EmptyDict == [k \in {} |-> ""]

\* bool(d) for a dict: a dict is true when it has a key
Truthy(d) == DOMAIN d # {}

(***************************************************************************)
(* Module-level values of urxvt.py.                                        *)
(***************************************************************************)

SIZE == 14

PERLEXT == "url-select,keyboard-select,font-size,color-themes"

ADDITIONAL_FONTS == <<"Symbola", "Unifont Upper", "DejaVu Sans">>

\* The value of URXVT_BMP in the environment of the run.
DEFAULT_BITMAP == "Terminus"

_REGULAR == <<"regular", "normal", "book", "medium">>

_BOLD == <<"bold">>

\* 'xft:%s:style=%s:pixelsize=%d' % (name, style, size)
XFT_TEMPLATE(name, style, size) ==
  "xft:" \o name \o ":style=" \o style \o ":pixelsize=" \o Decimal(size)

(***************************************************************************)
(* Bounds and inputs of the model.                                         *)
(***************************************************************************)

\* The most lines fc-list prints in a run of the model.
MaxLines == 2

\* Lines fc-list may print: well-formed ones, several for one font name, and
\* malformed ones.
LinePool ==
  { "/0.ttf: Foo:style=Medium",
    "/a.ttf: Foo:style=Regular",
    "/b.ttf: Foo,Bar:style=Bold",
    "/c.ttf: Foo:style=Book,Bold",
    "/d.ttf: Bar:style=SemiBold,Bold",
    "/e.ttf: DejaVu Sans:style=Medium Italic, BOLD",
    "/f.ttf: Symbola:style=Normal",
    "/g.ttf: Qux:style=Italic",
    "fc-list warning",
    "/h.ttf: Baz",
    "/i:style=x.ttf: Baz",
    "/j.ttf: Baz: x:style=Bold" }

\* What fc-list prints: up to MaxLines lines of the pool, in any order, each
\* ended by a newline.
RECURSIVE Text(_)
Text(lines) == IF lines = <<>> THEN "" ELSE lines[1] \o "\n" \o Text(Tail(lines))

FcListOutputs == {Text(ls) : ls \in UNION {[1..n -> LinePool] : n \in 0..MaxLines}}

\* sorted(out.split('\n')) for each of them
SortedOutputs == {Sorted(Split(text, "\n")) : text \in FcListOutputs}

\* Values of -f / URXVT_TTF: the default '', one name, a comma separated list.
FontStrings == {"", "Foo", "Bar, Foo"}

ReturnCodes == {0, 1, 2}

\* What subprocess.run(command) can do: return a CompletedProcess with an
\* exit status, or raise (the executable cannot be started).
RunOutcomes ==
  {[raised |-> FALSE, returncode |-> rc, error |-> ""] : rc \in ReturnCodes}
    \cup {[raised |-> TRUE, returncode |-> -1, error |-> "FileNotFoundError"]}

\* The other options of the command line: -n, -t, and what -i, -e and the
\* positional rxvt_args add to the arguments.
CommandLines ==
  { [no_perl |-> FALSE, tabbedalt |-> FALSE, rest |-> <<>>],
    [no_perl |-> FALSE, tabbedalt |-> TRUE, rest |-> <<"-e", "mc">>],
    [no_perl |-> TRUE, tabbedalt |-> FALSE, rest |-> <<"-icon", "/icons/term.png", "+sb">>] }

(***************************************************************************)
(* class Font                                                              *)
(***************************************************************************)

\* Font.__init__ up to the call of _get_all_suitable_fonts
NewFont(name, size) == [name |-> name, size |-> size, _regular |-> None, _bold |-> None]

\* for style in styles: if style.lower() == alias: return style
RECURSIVE FirstEqual(_, _)
FirstEqual(styles, alias) ==
  IF styles = <<>> THEN None
  ELSE IF Lower(styles[1]) = alias THEN Some(styles[1])
  ELSE FirstEqual(Tail(styles), alias)

\* The loop of _parse_style over Font._REGULAR, from the alias list given.
RECURSIVE RegularStyle(_, _)
RegularStyle(styles, aliases) ==
  IF aliases = <<>> THEN None
  ELSE LET hit == IF Contains(aliases[1], Lower(Join(styles, "")))
                  THEN FirstEqual(styles, aliases[1]) ELSE None
       IN  IF hit # None THEN hit ELSE RegularStyle(styles, Tail(aliases))

BoldStyle(styles) ==
  IF Contains("bold", Lower(Join(styles, ""))) THEN FirstEqual(styles, "bold") ELSE None

\* Mutation: bold is looked for before the regular aliases.
_parse_style_bold_first(styles) ==
  IF BoldStyle(styles) # None THEN BoldStyle(styles) ELSE RegularStyle(styles, _REGULAR)

\* for style in styles: if alias in style.lower(): return style
RECURSIVE FirstContaining(_, _)
FirstContaining(styles, alias) ==
  IF styles = <<>> THEN None
  ELSE IF Contains(alias, Lower(styles[1])) THEN Some(styles[1])
  ELSE FirstContaining(Tail(styles), alias)

RECURSIVE RegularContaining(_, _)
RegularContaining(styles, aliases) ==
  IF aliases = <<>> THEN None
  ELSE IF FirstContaining(styles, aliases[1]) # None THEN FirstContaining(styles, aliases[1])
  ELSE RegularContaining(styles, Tail(aliases))

\* Mutation: the token is matched by substring, not by equality.
_parse_style_substring(styles) ==
  IF RegularContaining(styles, _REGULAR) # None THEN RegularContaining(styles, _REGULAR)
  ELSE FirstContaining(styles, "bold")

\* Font._parse_style: the style token of the line, or None
_parse_style(styles) ==
  IF RegularStyle(styles, _REGULAR) # None THEN RegularStyle(styles, _REGULAR)
  ELSE BoldStyle(styles)

\* Mutation: the entry is written whether or not the name has one.
AddStyleOverwrite(dicts, name, style) ==
  IF Lower(style) = "bold"
  THEN [dicts EXCEPT !.bold = Put(@, name, style)]
  ELSE [dicts EXCEPT !.regular = Put(@, name, style)]

\* The body of "for name in font_names", on the two dicts being built.
AddStyle(dicts, name, style) ==
  IF Lower(style) = "bold" /\ Falsy(Get(dicts.bold, name))
  THEN [dicts EXCEPT !.bold = Put(@, name, style)]
  ELSE IF Lower(style) # "bold" /\ Falsy(Get(dicts.regular, name))
  THEN [dicts EXCEPT !.regular = Put(@, name, style)]
  ELSE dicts

\* for name in font_names: ...
RECURSIVE AddStyles(_, _, _)
AddStyles(dicts, font_names, style) ==
  IF font_names = <<>> THEN dicts
  ELSE AddStyles(AddStyle(dicts, font_names[1], style), Tail(font_names), style)

\* line.split(': ')[1], for a line that contains ': '
Metadata(line) == Split(line, ": ")[2]

\* [n.strip() for n in line.split(':')[0].split(',')]
FontNames(meta) == StripAll(Split(Split(meta, ":")[1], ","))

\* [s.strip() for s in line.split(':style=')[1].split(',')], for a metadata
\* part that contains ':style='
Styles(meta) == StripAll(Split(Split(meta, ":style=")[2], ","))

\* What one iteration of "for line in out" does with the line, up to the loop
\* over the names: the line is skipped ("skip"), line.split(':style=')[1]
\* raises IndexError because the part kept by line.split(': ')[1] has no
\* ':style=' ("raise"), or the line gives names and a style ("add").
ParseLine(line) ==
  IF line = "" \/ ~Contains(": ", line) \/ ~Contains(":style=", line)
  THEN [kind |-> "skip", font_names |-> <<>>, styles |-> <<>>, style |-> ""]
  ELSE IF Len(Split(Metadata(line), ":style=")) < 2
  THEN [kind |-> "raise", font_names |-> FontNames(Metadata(line)), styles |-> <<>>,
        style |-> ""]
  ELSE IF Falsy(_parse_style(Styles(Metadata(line))))
  THEN [kind |-> "skip", font_names |-> FontNames(Metadata(line)),
        styles |-> Styles(Metadata(line)), style |-> ""]
  ELSE [kind |-> "add", font_names |-> FontNames(Metadata(line)),
        styles |-> Styles(Metadata(line)),
        style |-> _parse_style(Styles(Metadata(line)))[1]]

\* ParseLine, tabulated for the lines of the model.
ParsedLines == [line \in LinePool \cup {""} |-> ParseLine(line)]

\* One iteration of "for line in out": the dicts after it, or the IndexError.
ScanOne(line, dicts) ==
  IF ParsedLines[line].kind = "raise" THEN [raised |-> TRUE, dicts |-> dicts]
  ELSE IF ParsedLines[line].kind = "skip" THEN [raised |-> FALSE, dicts |-> dicts]
  ELSE [raised |-> FALSE,
        dicts |-> AddStyles(dicts, ParsedLines[line].font_names, ParsedLines[line].style)]

\* Mutation: the catalog counts as built only when it resolved some font.
CatalogBuiltNonEmpty(available) ==
  Truthy(available) /\ (Truthy(available["regular"]) \/ Truthy(available["bold"]))

\* "if Font._AVAILABLE_FONTS: return"
CatalogBuilt(available) == Truthy(available)

\* Font.regular: the face after the read; the value read is its _regular[1]
Font_regular(font, available) ==
  IF font._regular # None THEN font
  ELSE LET style == Get(available["regular"], font.name)
       IN  [font EXCEPT !._regular =
              Some(IF Falsy(style) THEN ""
                   ELSE XFT_TEMPLATE(font.name, style[1], font.size))]

\* Font.bold: the face after the read; the value read is its _bold[1]
Font_bold(font, available) ==
  IF font._bold # None THEN font
  ELSE LET style == Get(available["bold"], font.name)
       IN  [font EXCEPT !._bold =
              Some(IF Falsy(style) THEN ""
                   ELSE XFT_TEMPLATE(font.name, style[1], font.size))]

(***************************************************************************)
(* class Urxvt                                                             *)
(***************************************************************************)

\* Urxvt._parse_fonts, up to the list of the names of the faces
_parse_fonts(font_string, bitmap) ==
  LET main == IF Contains(",", font_string)
              THEN StripAll(Split(font_string, ",")) \o ADDITIONAL_FONTS
              ELSE <<font_string>> \o ADDITIONAL_FONTS
  IN  IF bitmap THEN <<DEFAULT_BITMAP>> \o main ELSE main

\* Mutation: a face that has neither style ends the run.
ValidateOneStrict(font, available) ==
  LET read == Font_bold(Font_regular(font, available), available)
  IN  [font |-> read,
       unusable |-> read._regular[1] = "" /\ read._bold[1] = "",
       raised |-> read._regular[1] = "" /\ read._bold[1] = ""]

\* One iteration of the loop of Urxvt._validate: both values are read, an
\* unusable face is logged with LOG.error, nothing is raised.
ValidateOne(font, available) ==
  LET read == Font_bold(Font_regular(font, available), available)
  IN  [font |-> read,
       unusable |-> read._regular[1] = "" /\ read._bold[1] = "",
       raised |-> FALSE]

\* [f.regular for f in fonts]: the faces after the reads
RECURSIVE ReadAll(_, _)
ReadAll(fs, available) ==
  IF fs = <<>> THEN <<>>
  ELSE <<Font_bold(Font_regular(fs[1], available), available)>>
         \o ReadAll(Tail(fs), available)

\* [v for v in values if v]
RECURSIVE NonEmpty(_)
NonEmpty(values) ==
  IF values = <<>> THEN <<>>
  ELSE IF values[1] # "" THEN <<values[1]>> \o NonEmpty(Tail(values))
  ELSE NonEmpty(Tail(values))

\* Mutation: the empty values are joined too.
JoinFontsAll(values) == Join(values, ",")

\* ','.join([f.regular for f in self.fonts if f.regular])
JoinFonts(values) == Join(NonEmpty(values), ",")

\* self.perl_extensions as Urxvt._setup sets it
PerlExtensions(no_perl, tabbedalt) ==
  IF no_perl THEN "" ELSE IF tabbedalt THEN "tabbedalt," \o PERLEXT ELSE PERLEXT

\* Urxvt._make_command_args, on the faces after the reads; rest is what -icon,
\* -e and rxvt_args add
_make_command_args(fs, perl_extensions, rest) ==
  LET fn == JoinFonts([k \in 1..Len(fs) |-> fs[k]._regular[1]])
      fb == JoinFonts([k \in 1..Len(fs) |-> fs[k]._bold[1]])
  IN  <<"-pe", perl_extensions>>
        \o (IF fn # "" THEN <<"-fn", fn>> ELSE <<>>)
        \o (IF fb # "" THEN <<"-fb", fb>> ELSE <<>>)
        \o rest

\* Mutation: the daemon is started on any failure of the client.
ServerNeededOnFailure(returncode) == returncode # 0

\* "if process.returncode == 2"
ServerNeeded(returncode) == returncode = 2

\* Mutation: the error of the second urxvtc is caught.
AfterRetryMasked(outcome) == [pc |-> "done", exception |-> ""]

\* How _run_client_server, run and main end after the second urxvtc: what
\* subprocess.run returns is dropped, what it raises is not caught.
AfterRetry(outcome) ==
  IF outcome.raised THEN [pc |-> "crashed", exception |-> outcome.error]
  ELSE [pc |-> "done", exception |-> ""]

(***************************************************************************)
(* The run of main().                                                      *)
(***************************************************************************)

VARIABLES
  pc,                \* where the run is
  RUN_DIRECT,        \* URXVT_RUN_DIRECT is set
  default_font,      \* args.default_font
  use_bitmap,        \* args.bitmap
  font_faces,        \* the names _parse_fonts makes Font objects of
  fonts,             \* the Font objects made so far, then self.fonts
  _AVAILABLE_FONTS,  \* Font._AVAILABLE_FONTS
  out,               \* _get_all_suitable_fonts: the sorted lines
  i,                 \* _get_all_suitable_fonts: the index of the next line
  regular,           \* _get_all_suitable_fonts: the local dict regular
  bold,              \* _get_all_suitable_fonts: the local dict bold
  fc_list_calls,     \* how many times fc-list was run
  validated,         \* _validate: how many faces the loop has seen
  unusable,          \* the names logged by LOG.error in _validate
  args,              \* the value of _make_command_args
  launches,          \* the subprocess.run calls made, with their outcomes
  exception          \* the exception that ended the run, "" when none

vars ==
  <<pc, RUN_DIRECT, default_font, use_bitmap, font_faces, fonts, _AVAILABLE_FONTS,
    out, i, regular, bold, fc_list_calls, validated, unusable, args, launches,
    exception>>

Init ==
  /\ pc = "setup"
  /\ RUN_DIRECT \in BOOLEAN
  /\ default_font \in FontStrings
  /\ use_bitmap \in BOOLEAN
  /\ font_faces = <<>>
  /\ fonts = <<>>
  /\ _AVAILABLE_FONTS = EmptyDict
  /\ out = <<>>
  /\ i = 1
  /\ regular = EmptyDict
  /\ bold = EmptyDict
  /\ fc_list_calls = 0
  /\ validated = 0
  /\ unusable = <<>>
  /\ args = <<>>
  /\ launches = <<>>
  /\ exception = ""

\* Where the run goes once fs are the faces made: the list comprehension of
\* _parse_fonts goes on, or _setup ends and _validate starts.
AfterFont(fs) == IF Len(fs) < Len(font_faces) THEN "fonts" ELSE "validate"

\* Urxvt._setup / _parse_fonts: the names of the faces to make.
ParseFonts ==
  /\ pc = "setup"
  /\ font_faces' = _parse_fonts(default_font, use_bitmap)
  /\ pc' = "fonts"
  /\ UNCHANGED <<RUN_DIRECT, default_font, use_bitmap, fonts, _AVAILABLE_FONTS, out, i,
                 regular, bold, fc_list_calls, validated, unusable, args, launches,
                 exception>>

\* Font(f, self.size) when the catalog is there: _get_all_suitable_fonts
\* returns at once.
FontInitCached ==
  /\ pc = "fonts"
  /\ Len(fonts) < Len(font_faces)
  /\ CatalogBuilt(_AVAILABLE_FONTS)
  /\ fonts' = Append(fonts, NewFont(font_faces[Len(fonts) + 1], SIZE))
  /\ pc' = AfterFont(fonts')
  /\ UNCHANGED <<RUN_DIRECT, default_font, use_bitmap, font_faces, _AVAILABLE_FONTS, out,
                 i, regular, bold, fc_list_calls, validated, unusable, args, launches,
                 exception>>

\* Font(f, self.size) when the catalog is not there: fc-list is run, its
\* output is split into lines and sorted.
FontInitScan ==
  /\ pc = "fonts"
  /\ Len(fonts) < Len(font_faces)
  /\ ~CatalogBuilt(_AVAILABLE_FONTS)
  /\ fc_list_calls' = fc_list_calls + 1
  /\ \E lines \in SortedOutputs :
       /\ out' = lines
       /\ i' = 1
       /\ regular' = EmptyDict
       /\ bold' = EmptyDict
       /\ pc' = "scan"
  /\ UNCHANGED <<RUN_DIRECT, default_font, use_bitmap, font_faces, fonts,
                 _AVAILABLE_FONTS, validated, unusable, args, launches, exception>>

\* The same, when subprocess.check_output raises: fc-list is missing or
\* exits with an error.
FontInitFcListFails ==
  /\ pc = "fonts"
  /\ Len(fonts) < Len(font_faces)
  /\ ~CatalogBuilt(_AVAILABLE_FONTS)
  /\ fc_list_calls' = fc_list_calls + 1
  /\ \E e \in {"CalledProcessError", "FileNotFoundError"} : exception' = e
  /\ pc' = "crashed"
  /\ UNCHANGED <<RUN_DIRECT, default_font, use_bitmap, font_faces, fonts,
                 _AVAILABLE_FONTS, out, i, regular, bold, validated, unusable, args,
                 launches>>

\* One iteration of "for line in out".
ScanLine ==
  /\ pc = "scan"
  /\ i <= Len(out)
  /\ LET r == ScanOne(out[i], [regular |-> regular, bold |-> bold])
     IN  IF r.raised
         THEN /\ pc' = "crashed"
              /\ exception' = "IndexError"
              /\ UNCHANGED <<i, regular, bold>>
         ELSE /\ pc' = "scan"
              /\ i' = i + 1
              /\ regular' = r.dicts.regular
              /\ bold' = r.dicts.bold
              /\ UNCHANGED exception
  /\ UNCHANGED <<RUN_DIRECT, default_font, use_bitmap, font_faces, fonts,
                 _AVAILABLE_FONTS, out, fc_list_calls, validated, unusable, args,
                 launches>>

\* The end of the loop: the catalog is stored in the class and Font.__init__
\* returns.
ScanDone ==
  /\ pc = "scan"
  /\ i > Len(out)
  /\ _AVAILABLE_FONTS' = [regular |-> regular, bold |-> bold]
  /\ fonts' = Append(fonts, NewFont(font_faces[Len(fonts) + 1], SIZE))
  /\ pc' = AfterFont(fonts')
  /\ out' = <<>>
  /\ i' = 1
  /\ regular' = EmptyDict
  /\ bold' = EmptyDict
  /\ UNCHANGED <<RUN_DIRECT, default_font, use_bitmap, font_faces, fc_list_calls,
                 validated, unusable, args, launches, exception>>

\* One iteration of the loop of Urxvt._validate.
ValidateFont ==
  /\ pc = "validate"
  /\ validated < Len(fonts)
  /\ LET r == ValidateOne(fonts[validated + 1], _AVAILABLE_FONTS)
     IN  /\ fonts' = [fonts EXCEPT ![validated + 1] = r.font]
         /\ unusable' = IF r.unusable THEN Append(unusable, r.font.name) ELSE unusable
         /\ IF r.raised
            THEN pc' = "crashed" /\ exception' = "ValueError"
            ELSE pc' = "validate" /\ UNCHANGED exception
  /\ validated' = validated + 1
  /\ UNCHANGED <<RUN_DIRECT, default_font, use_bitmap, font_faces, _AVAILABLE_FONTS, out,
                 i, regular, bold, fc_list_calls, args, launches>>

\* Urxvt.run up to the launch: _make_command_args.
MakeCommandArgs ==
  /\ pc = "validate"
  /\ validated = Len(fonts)
  /\ fonts' = ReadAll(fonts, _AVAILABLE_FONTS)
  /\ \E c \in CommandLines :
       args' = _make_command_args(fonts', PerlExtensions(c.no_perl, c.tabbedalt), c.rest)
  /\ pc' = IF RUN_DIRECT THEN "urxvt" ELSE "urxvtc"
  /\ UNCHANGED <<RUN_DIRECT, default_font, use_bitmap, font_faces, _AVAILABLE_FONTS, out,
                 i, regular, bold, fc_list_calls, validated, unusable, launches,
                 exception>>

Launch(command, outcome) ==
  [command |-> command, raised |-> outcome.raised, returncode |-> outcome.returncode]

\* Urxvt._run_urxvt
RunUrxvt ==
  /\ pc = "urxvt"
  /\ \E o \in RunOutcomes :
       /\ launches' = Append(launches, Launch(<<"urxvt">> \o args, o))
       /\ pc' = IF o.raised THEN "crashed" ELSE "done"
       /\ exception' = o.error
  /\ UNCHANGED <<RUN_DIRECT, default_font, use_bitmap, font_faces, fonts,
                 _AVAILABLE_FONTS, out, i, regular, bold, fc_list_calls, validated,
                 unusable, args>>

\* Urxvt._run_client_server: the first subprocess.run(command)
RunClient ==
  /\ pc = "urxvtc"
  /\ \E o \in RunOutcomes :
       /\ launches' = Append(launches, Launch(<<"urxvtc">> \o args, o))
       /\ pc' = IF o.raised THEN "crashed"
                ELSE IF ServerNeeded(o.returncode) THEN "urxvtd" ELSE "done"
       /\ exception' = o.error
  /\ UNCHANGED <<RUN_DIRECT, default_font, use_bitmap, font_faces, fonts,
                 _AVAILABLE_FONTS, out, i, regular, bold, fc_list_calls, validated,
                 unusable, args>>

\* Urxvt._run_client_server: subprocess.run(['urxvtd', '-q', '-o', '-f'])
RunServer ==
  /\ pc = "urxvtd"
  /\ \E o \in RunOutcomes :
       /\ launches' = Append(launches, Launch(<<"urxvtd", "-q", "-o", "-f">>, o))
       /\ pc' = IF o.raised THEN "crashed" ELSE "retry"
       /\ exception' = o.error
  /\ UNCHANGED <<RUN_DIRECT, default_font, use_bitmap, font_faces, fonts,
                 _AVAILABLE_FONTS, out, i, regular, bold, fc_list_calls, validated,
                 unusable, args>>

\* Urxvt._run_client_server: the second subprocess.run(command)
RetryClient ==
  /\ pc = "retry"
  /\ \E o \in RunOutcomes :
       /\ launches' = Append(launches, Launch(<<"urxvtc">> \o args, o))
       /\ pc' = AfterRetry(o).pc
       /\ exception' = AfterRetry(o).exception
  /\ UNCHANGED <<RUN_DIRECT, default_font, use_bitmap, font_faces, fonts,
                 _AVAILABLE_FONTS, out, i, regular, bold, fc_list_calls, validated,
                 unusable, args>>

Next ==
  \/ ParseFonts
  \/ FontInitCached
  \/ FontInitScan
  \/ FontInitFcListFails
  \/ ScanLine
  \/ ScanDone
  \/ ValidateFont
  \/ MakeCommandArgs
  \/ RunUrxvt
  \/ RunClient
  \/ RunServer
  \/ RetryClient

Spec == Init /\ [][Next]_vars

(***************************************************************************)
(* Properties.                                                             *)
(***************************************************************************)

Range(f) == {f[k] : k \in DOMAIN f}

\* The two mappings as they stand: the local dicts while the catalog is
\* being built, the catalog once it is stored.
CurRegular ==
  IF Truthy(_AVAILABLE_FONTS) THEN _AVAILABLE_FONTS["regular"] ELSE regular

CurBold == IF Truthy(_AVAILABLE_FONTS) THEN _AVAILABLE_FONTS["bold"] ELSE bold

\* A Font construction has started.
Constructing == pc # "setup" /\ ~(pc = "fonts" /\ fonts = <<>>)

\* The loop of _get_all_suitable_fonts is about to handle line out[i].
AtLine == pc = "scan" /\ i <= Len(out)

\* The line has a ': ' and its part after it (line.split(': ')[1]) has a
\* ':style='.
IsCandidate(line) == Contains(": ", line) /\ Contains(":style=", Metadata(line))

CandidateLines == {line \in LinePool \cup {""} : IsCandidate(line)}

\* The style tokens of each line that equal a regular alias, "bold",
\* whatever the case.
Tokens ==
  [line \in LinePool \cup {""} |->
     [regular |-> {t \in Range(ParsedLines[line].styles) : Lower(t) \in Range(_REGULAR)},
      bold |-> {t \in Range(ParsedLines[line].styles) : Lower(t) = "bold"}]]

RegularTokens(line) == Tokens[line].regular

BoldTokens(line) == Tokens[line].bold

\* C1: fc-list is run exactly once in a process: by the first Font
\* construction and by no later construction or read of regular/bold, also
\* when the catalog built has no entry in either mapping.
C1_FcListOnce ==
  /\ fc_list_calls <= 1
  /\ Constructing <=> fc_list_calls = 1

\* C1, reached: the catalog is built with no entry at all, later faces were
\* constructed and read, and fc-list ran once.
C1_Witness ==
  /\ Truthy(_AVAILABLE_FONTS)
  /\ ~Truthy(_AVAILABLE_FONTS["regular"]) /\ ~Truthy(_AVAILABLE_FONTS["bold"])
  /\ Len(fonts) >= 3
  /\ validated >= 2
  /\ fc_list_calls = 1

C3_BothSlots ==
  [][(/\ AtLine
      /\ out[i] \in CandidateLines
      /\ RegularTokens(out[i]) # {}
      /\ "Bold" \in Range(ParsedLines[out[i]].styles))
     => \A n \in Range(ParsedLines[out[i]].font_names) :
          (n \notin DOMAIN regular /\ n \notin DOMAIN bold)
            => /\ n \in DOMAIN regular' /\ regular'[n] \in RegularTokens(out[i])
               /\ n \in DOMAIN bold' /\ bold'[n] = "Bold"]_vars

\* C3, amended: such a line fills the regular slot only: the name gets a
\* regular-alias token of the line, and the bold mapping is left as it was.
C3_RegularOnly ==
  [][(/\ AtLine
      /\ out[i] \in CandidateLines
      /\ RegularTokens(out[i]) # {}
      /\ "Bold" \in Range(ParsedLines[out[i]].styles))
     => /\ \A n \in Range(ParsedLines[out[i]].font_names) :
             (n \notin DOMAIN regular /\ n \notin DOMAIN bold)
               => n \in DOMAIN regular' /\ regular'[n] \in RegularTokens(out[i])
        /\ bold' = bold]_vars

\* C3, reached: the line with the styles Book,Bold was the first handled,
\* Foo has Book as regular and no bold.
C3_Witness ==
  /\ pc = "scan"
  /\ i = 3
  /\ ParsedLines[out[2]].styles = <<"Book", "Bold">>
  /\ "Foo" \in DOMAIN regular /\ regular["Foo"] = "Book"
  /\ "Foo" \notin DOMAIN bold

\* C4: a line without a ': ' and a ':style=' in its metadata part is
\* skipped: no entry is added and the loop goes on with the next line.
C4_MalformedSkipped ==
  [][(AtLine /\ out[i] \notin CandidateLines)
     => /\ pc' = "scan" /\ i' = i + 1
        /\ regular' = regular /\ bold' = bold]_vars

\* The executables launched, in order.
Commands == [k \in 1..Len(launches) |-> launches[k].command[1]]

\* C5: in client/server mode urxvtc is run first, urxvtd only after a first
\* urxvtc that returned 2 and only once, and urxvtc is then run once more
\* with the same arguments: never more than two urxvtc and one urxvtd.
C5_LaunchProtocol ==
  ~RUN_DIRECT =>
    /\ Commands \in {<<>>, <<"urxvtc">>, <<"urxvtc", "urxvtd">>,
                     <<"urxvtc", "urxvtd", "urxvtc">>}
    /\ Len(launches) >= 2 => ~launches[1].raised /\ launches[1].returncode = 2
    /\ Len(launches) = 3 => launches[3].command = launches[1].command
    /\ pc = "done" => Len(launches) = (IF launches[1].returncode = 2 THEN 3 ELSE 1)

\* C5, reached: the run ended after urxvtc, urxvtd, urxvtc.
C5_Witness == ~RUN_DIRECT /\ pc = "done" /\ Len(launches) = 3

\* The second urxvtc was run.
Retried == ~RUN_DIRECT /\ Len(launches) = 3

\* C6, as claimed: when the retried urxvtc fails, the run reports that
\* failure and not a success.
C6_RetryFailureSurfaced ==
  (Retried /\ (launches[3].raised \/ launches[3].returncode # 0)) => pc = "crashed"

\* C6, amended: an exception raised by the retried urxvtc ends the run with
\* that exception; its exit status is dropped, and the run ends normally
\* whatever the status.
C6_RetryExceptionOnly ==
  Retried =>
    IF launches[3].raised
    THEN pc = "crashed" /\ exception = "FileNotFoundError"
    ELSE pc = "done" /\ exception = ""

\* C6, reached: the retried urxvtc raised and the run ended with it.
C6_Witness == Retried /\ launches[3].raised /\ pc = "crashed"

\* The names of the request list: the bitmap font when asked for, the
\* caller's fonts in the order given, the supplementary fonts.
RequestNames ==
  (IF use_bitmap THEN <<DEFAULT_BITMAP>> ELSE <<>>)
    \o (IF Contains(",", default_font)
        THEN StripAll(Split(default_font, ",")) ELSE <<default_font>>)
    \o <<"Symbola", "Unifont Upper", "DejaVu Sans">>

\* The directives of the names that have an entry in the mapping, in order.
RECURSIVE Directives(_, _)
Directives(names, mapping) ==
  IF names = <<>> THEN <<>>
  ELSE (IF names[1] \in DOMAIN mapping
        THEN <<XFT_TEMPLATE(names[1], mapping[names[1]], SIZE)>> ELSE <<>>)
         \o Directives(Tail(names), mapping)

\* The argument that follows flag in args, "" when args has no flag.
ArgOf(flag) ==
  IF \E k \in 1..Len(args) - 1 : args[k] = flag
  THEN args[(CHOOSE k \in 1..Len(args) - 1 :
               args[k] = flag /\ \A j \in 1..k - 1 : args[j] # flag) + 1]
  ELSE ""

\* C7: the -fn (-fb) argument is the comma-join, in the order of the request
\* list, of the regular (bold) directives of exactly the faces that have
\* one; a face without one leaves no empty place.
C7_JoinedDirectives ==
  args # <<>> =>
    /\ ArgOf("-fn") = Join(Directives(RequestNames, _AVAILABLE_FONTS["regular"]), ",")
    /\ ArgOf("-fb") = Join(Directives(RequestNames, _AVAILABLE_FONTS["bold"]), ",")
    /\ ~Contains(",,", ArgOf("-fn")) /\ ~Contains(",,", ArgOf("-fb"))

\* C7, reached: the arguments are made, and faces with no bold value stand
\* before, between and after faces that have one.
C7_Witness ==
  /\ args # <<>>
  /\ use_bitmap
  /\ \E a \in 1..Len(fonts), b \in 1..Len(fonts), c \in 1..Len(fonts) :
       /\ a < b /\ b < c
       /\ fonts[1]._bold = Some("")
       /\ fonts[a]._bold # Some("")
       /\ fonts[b]._bold = Some("")
       /\ fonts[c]._bold # Some("")

\* C8: once the catalog is built, the run goes on to the launch of the
\* terminal, whatever the fonts asked for resolve to: until the launch it has
\* neither ended nor raised, and it has a next step.
C8_LaunchAttempted ==
  (Truthy(_AVAILABLE_FONTS) /\ launches = <<>>)
    => /\ pc \in {"fonts", "validate", "urxvt", "urxvtc"}
       /\ exception = ""
       /\ ENABLED Next

\* C8, reached: no face has a regular or a bold style, each was logged as
\* unusable, and the terminal was launched without -fn and -fb.
C8_Witness ==
  /\ launches # <<>>
  /\ Len(unusable) = Len(fonts)
  /\ ArgOf("-fn") = "" /\ ArgOf("-fb") = ""

\* The regular aliases the lines of out offer for the name, by a style
\* token that equals the alias.
OfferedAliases(n) ==
  {Lower(t) : t \in UNION {RegularTokens(out[k]) :
                 k \in {j \in 1..Len(out) : /\ out[j] \in CandidateLines
                                           /\ n \in Range(ParsedLines[out[j]].font_names)}}}

\* The first alias of _REGULAR that is offered.
BestAlias(offered) ==
  _REGULAR[CHOOSE k \in 1..Len(_REGULAR) :
             /\ _REGULAR[k] \in offered
             /\ \A j \in 1..k - 1 : _REGULAR[j] \notin offered]

\* C9: when all lines are handled, the regular style of a name is the one
\* that comes first in _REGULAR among all the styles the listing offers for
\* the name: Medium only when no line offers Regular, Normal or Book.
C9_RegularByAliasOrder ==
  (pc = "scan" /\ i > Len(out)) =>
    \A n \in DOMAIN regular : Lower(regular[n]) = BestAlias(OfferedAliases(n))

\* The tokens of the line that hold an alias without being equal to it.
NearTokens(line) ==
  {t \in Range(ParsedLines[line].styles) :
     /\ \E a \in Range(_REGULAR) \cup Range(_BOLD) : Contains(a, Lower(t))
     /\ Lower(t) \notin Range(_REGULAR) \cup Range(_BOLD)}

\* The lines of out the loop has handled.
Handled == {out[k] : k \in {j \in 1..Len(out) : pc = "scan" /\ j < i}}

\* C10: every bold value equals "bold" and every regular value equals one
\* of regular, normal, book, medium, whatever the case, and none is empty;
\* and once a line with a token equal to "bold" and no token equal to a
\* regular alias is handled, each of its names has a bold entry, whatever
\* other tokens the line has.
C10_ExactMatch ==
  /\ \A n \in DOMAIN CurBold : CurBold[n] # "" /\ Lower(CurBold[n]) = "bold"
  /\ \A n \in DOMAIN CurRegular :
       CurRegular[n] # "" /\ Lower(CurRegular[n]) \in Range(_REGULAR)
  /\ \A line \in Handled \cap CandidateLines :
       (RegularTokens(line) = {} /\ BoldTokens(line) # {})
         => \A n \in Range(ParsedLines[line].font_names) : n \in DOMAIN bold

\* C10, reached: a line with a token that only holds an alias (SemiBold,
\* Medium Italic) was handled, and its names have its bold token as bold and
\* no regular.
C10_Witness ==
  /\ pc = "scan"
  /\ i = 3
  /\ NearTokens(out[2]) # {}
  /\ \A n \in Range(ParsedLines[out[2]].font_names) :
       /\ n \in DOMAIN bold /\ bold[n] \in BoldTokens(out[2])
       /\ n \notin DOMAIN regular

====
